---------------------------- MODULE Spec2Model ----------------------------
(***************************************************************************)
(* One run of backend/scripts/whisper_transcribe.py or of                  *)
(* backend/scripts/speaker_diarize.py, from interpreter start to exit.     *)
(*                                                                         *)
(* Strings that the code inspects or reformats (the audio path, error      *)
(* messages) are sequences of tokens: a path is a sequence of one-character*)
(* strings, a fixed message is one token.  Times are integers counting     *)
(* 1/10000 s, so that round(x, 3) and round(x, 2) both change values.      *)
(* The two engines (whisper, pyannote.audio/torch), the file system, the   *)
(* argument vector and the environment are the nondeterministic inputs.    *)
(***************************************************************************)
EXTENDS Integers, Sequences, FiniteSets, TLC

VARIABLES
    script,            \* which script runs: "whisper" or "diarize"
    argv,              \* the command line, by option
    environ,           \* os.environ: HUGGINGFACE_TOKEN and HF_TOKEN
    pc,                \* position in the script
    args,              \* the namespace parse_args() returned
    file_exists,       \* the file system: whether the audio path exists
    imported,          \* outcome of importing the engine library
    stdout,            \* what was printed on stdout, in order
    stderr,            \* what was written on stderr, in order
    exit_code,         \* process exit status; -1 while running
    calls,             \* engine steps and environment lookups made, in order
    exc,               \* the exception being handled in an except clause
    token,             \* pyannote_diarization: the resolved credential
    engine_result,     \* transcribe_audio: what model.transcribe returned
    formatted_result,  \* transcribe_audio: the dict under construction
    seg_index,         \* transcribe_audio: index of the next engine segment
    turns,             \* (turn, label) pairs itertracks has yielded so far
    segments,          \* pyannote_diarization: local list
    speaker_times,     \* pyannote_diarization: local dict id -> duration
    speaker_mapping,   \* pyannote_diarization: local dict label -> id
    speaker_counter,   \* pyannote_diarization: local int
    result             \* main: the dict handed to json.dumps

vars == <<script, argv, environ, pc, args, file_exists, imported, stdout, stderr,
          exit_code, calls, exc, token, engine_result, formatted_result,
          seg_index, turns, segments, speaker_times, speaker_mapping,
          speaker_counter, result>>

(***************************************************************************)
(* Bounds of the model.                                                    *)
(***************************************************************************)
MaxTurns == 3
MaxSegs == 2

\* Python's None, for values that are otherwise strings.
None == "<None>"

\* The empty record: a dict with no keys, and the value of an unset local.
Empty == [k \in {} |-> None]

(***************************************************************************)
(* Inputs.                                                                 *)
(***************************************************************************)
\* Audio paths as typed on the command line: "a", "./a", "d//a".
AudioPaths ==
    { <<"a">>, <<".", "/", "a">>, <<"d", "/", "/", "a">> }

\* --model choices accepted by the parser, and one value outside them.
ModelChoices == {"tiny", "base", "small", "medium", "large"}
ModelArgs == ModelChoices \cup {None, "huge"}

\* --language: not given, the auto-detect sentinel, a language code.
LanguageArgs == {None, "auto", "en"}

\* --token and the two environment variables: unset, set to "", set.
TokenArgs == {None, "", "tok_arg"}
PrimaryEnv == {None, "", "tok_env1"}
SecondaryEnv == {None, "", "tok_env2"}

\* Exceptions an engine step can raise: cls is "Exception" for any subclass
\* of Exception and "BaseException" for one that "except Exception" does
\* not catch (GeneratorExit; also KeyboardInterrupt and SystemExit, which
\* end the process with other statuses); msg is str(e), empty for an
\* exception built without arguments (MemoryError(), AssertionError()).
EngineExceptions ==
    { [cls |-> "Exception", msg |-> <<"CUDA out of memory">>],
      [cls |-> "Exception", msg |-> <<>>],
      [cls |-> "BaseException", msg |-> <<>>] }

\* Speaker labels and turn intervals <<start, end>> the diarization engine
\* yields: a turn of 2.0 s and one of 1.4 ms.
Labels == {"SPEAKER_00", "SPEAKER_01", "SPEAKER_02"}
Intervals == { <<0, 20000>>, <<35012, 35026>> }

(***************************************************************************)
(* Pure helpers.                                                           *)
(***************************************************************************)
\* Python truthiness of an optional string: None and "" are falsy.
Truthy(x) == x # None /\ x # ""

\* a or b
Or(a, b) == IF Truthy(a) THEN a ELSE b

\* round(x, n) of a non-negative time, for 10^(4-n) = unit ticks: nearest
\* multiple of unit, ties to the even multiple.
RoundTo(x, unit) ==
    LET q == x \div unit
        r == x % unit
    IN  IF 2 * r < unit THEN q * unit
        ELSE IF 2 * r > unit THEN (q + 1) * unit
        ELSE IF q % 2 = 0 THEN q * unit ELSE (q + 1) * unit

\* round(turn.start, 3), round(turn.end, 3)
Round3(x) == RoundTo(x, 10)

\* round(duration, 2)
Round2(x) == RoundTo(x, 100)

\* The components of a path between slashes, empty ones included.
RECURSIVE SplitSlash(_, _, _)
SplitSlash(p, i, cur) ==
    IF i > Len(p) THEN <<cur>>
    ELSE IF p[i] = "/" THEN <<cur>> \o SplitSlash(p, i + 1, <<>>)
    ELSE SplitSlash(p, i + 1, Append(cur, p[i]))

\* Number of leading slashes of a path.
RECURSIVE LeadingSlashes(_)
LeadingSlashes(p) ==
    IF p # <<>> /\ Head(p) = "/" THEN 1 + LeadingSlashes(Tail(p)) ELSE 0

RECURSIVE JoinSlash(_)
JoinSlash(parts) ==
    IF parts = <<>> THEN <<>>
    ELSE IF Len(parts) = 1 THEN parts[1]
    ELSE parts[1] \o <<"/">> \o JoinSlash(Tail(parts))

\* str(Path(p)) on POSIX: empty and "." components are dropped, runs of
\* slashes collapse, a trailing slash goes; exactly two leading slashes are
\* kept, any other number becomes one; the empty path prints as ".".
PathStr(p) ==
    LET parts == SelectSeq(SplitSlash(p, 1, <<>>),
                           LAMBDA c : c # <<>> /\ c # <<".">>)
        n == LeadingSlashes(p)
        root == IF n = 0 THEN <<>>
                ELSE IF n = 2 THEN <<"/", "/">> ELSE <<"/">>
        s == root \o JoinSlash(parts)
    IN  IF s = <<>> THEN <<".">> ELSE s

\* f"Speaker {speaker_id}"
speaker_name(speaker_id) == "Speaker " \o ToString(speaker_id)

(***************************************************************************)
(* Engine data of the transcription engine.                                *)
(***************************************************************************)
\* Words as whisper returns them, with a probability the script drops.
WordHello == [word |-> " hello", start |-> 0, end |-> 4000, probability |-> 93]
WordWorld == [word |-> " world", start |-> 4000, end |-> 9000, probability |-> 71]
WordAgain == [word |-> " again", start |-> 20000, end |-> 24000, probability |-> 88]
\* A word without its "end" key.
WordNoEnd == [word |-> " cut", start |-> 24000]

\* Engine segments: two words, one word, no "words" key, a good word
\* followed by a malformed one.
EngineSegments ==
    { [id |-> 0, start |-> 0, end |-> 20000, text |-> " hello world",
       words |-> <<WordHello, WordWorld>>],
      [id |-> 1, start |-> 20000, end |-> 35000, text |-> " again",
       words |-> <<WordAgain>>],
      [id |-> 2, start |-> 35000, end |-> 36000, text |-> ""],
      [id |-> 3, start |-> 36000, end |-> 40000, text |-> " again cut",
       words |-> <<WordAgain, WordNoEnd>>] }

\* Sequences of engine segments of length at most n.
RECURSIVE SegmentLists(_)
SegmentLists(n) ==
    IF n = 0 THEN { <<>> }
    ELSE SegmentLists(n - 1) \cup
         { Append(s, g) : s \in { t \in SegmentLists(n - 1) : Len(t) = n - 1 },
                          g \in EngineSegments }

\* What model.transcribe can return: with or without "language", with or
\* without "segments".
EngineResults ==
    LET full == { [text |-> "transcript", language |-> "en", segments |-> s] :
                    s \in SegmentLists(MaxSegs) }
    IN  full
        \cup { [text |-> r.text, segments |-> r.segments] : r \in full }
        \cup { [text |-> "transcript", language |-> "en"],
               [text |-> "transcript"] }

(***************************************************************************)
(* whisper_transcribe.py: pure parts of transcribe_audio.                  *)
(***************************************************************************)
\* options["language"], None when the hint is not passed on.
language_option(language) ==
    IF Truthy(language) /\ language # "auto" THEN language ELSE None

\* The dict built before the loop.
formatted_head(r) ==
    [success |-> TRUE,
     text |-> r.text,
     language |-> IF "language" \in DOMAIN r THEN r.language ELSE "unknown",
     segments |-> <<>>,
     words |-> <<>>]

segment_data(segment) ==
    [start |-> segment.start, end |-> segment.end, text |-> segment.text]

\* A word copied with every key the engine gave it.
word_data_verbatim(word) == word

word_data(word) ==
    [word |-> word.word, start |-> word.start, end |-> word.end]

\* Whether building word_data raises KeyError.
WordOk(word) == {"word", "start", "end"} \subseteq DOMAIN word

\* The words of a segment, [] when the key is absent.
SegmentWords(segment) ==
    IF "words" \in DOMAIN segment THEN segment.words ELSE <<>>

\* Index of the first word of ws whose word_data raises, 0 if none does.
RECURSIVE FirstBadWord(_, _)
FirstBadWord(ws, i) ==
    IF i > Len(ws) THEN 0
    ELSE IF ~WordOk(ws[i]) THEN i
    ELSE FirstBadWord(ws, i + 1)

\* formatted_result["words"] after appending word_data of ws[1..n].
RECURSIVE AppendWords(_, _, _)
AppendWords(acc, ws, n) ==
    IF n = 0 THEN acc
    ELSE Append(AppendWords(acc, ws, n - 1), word_data(ws[n]))

\* str(KeyError(key))
KeyErrorOf(ws, i) ==
    LET missing == CHOOSE k \in {"word", "start", "end"} : k \notin DOMAIN ws[i]
    IN  [cls |-> "Exception", msg |-> << "'" \o missing \o "'" >>]

\* The except clause of transcribe_audio and of pyannote_diarization.
except_result(e) == [success |-> FALSE, error |-> e.msg]

(***************************************************************************)
(* speaker_diarize.py: pure parts.                                         *)
(***************************************************************************)
simple_diarization ==
    [success |-> TRUE,
     method |-> "fallback",
     speaker_count |-> 1,
     segments |-> <<>>,
     speakers |-> << [id |-> 1, name |-> "Speaker 1", total_duration |-> 0] >>]

\* The import failure answered with the placeholder result.
import_error_fallback == simple_diarization

import_error_result ==
    [success |-> FALSE,
     error |-> <<"pyannote.audio not installed. Run: pip install pyannote.audio torch">>]

token_required_result ==
    [success |-> FALSE,
     error |-> <<"HuggingFace token required. Set HUGGINGFACE_TOKEN environment variable.">>]

\* The two environment variables consulted in the other order.
resolve_token_swapped(hf_token, env) ==
    Or(Or(hf_token, env.HF_TOKEN), env.HUGGINGFACE_TOKEN)

\* token = hf_token or os.environ.get("HUGGINGFACE_TOKEN") or os.environ.get("HF_TOKEN")
resolve_token(hf_token, env) ==
    Or(Or(hf_token, env.HUGGINGFACE_TOKEN), env.HF_TOKEN)

\* The mapping filled in without advancing the counter.
map_speaker_stuck(mapping, counter, speaker) ==
    IF speaker \notin DOMAIN mapping
    THEN [mapping |-> mapping @@ (speaker :> counter), counter |-> counter]
    ELSE [mapping |-> mapping, counter |-> counter]

\* if speaker not in speaker_mapping: ...; returns the mapping and counter.
map_speaker(mapping, counter, speaker) ==
    IF speaker \notin DOMAIN mapping
    THEN [mapping |-> mapping @@ (speaker :> counter), counter |-> counter + 1]
    ELSE [mapping |-> mapping, counter |-> counter]

\* The duration assigned ("=") instead of accumulated ("+=").
add_duration_assign(times, speaker_id, turn) ==
    (speaker_id :> (turn.end - turn.start)) @@ times

\* speaker_times after one turn of speaker_id.
add_duration(times, speaker_id, turn) ==
    LET t0 == IF speaker_id \notin DOMAIN times
              THEN times @@ (speaker_id :> 0) ELSE times
    IN  [t0 EXCEPT ![speaker_id] = @ + (turn.end - turn.start)]

segment_entry(turn, speaker_id) ==
    [start |-> Round3(turn.start),
     end |-> Round3(turn.end),
     speaker |-> speaker_name(speaker_id),
     speakerId |-> speaker_id]

\* sorted(keys)
RECURSIVE SortedSeq(_)
SortedSeq(S) ==
    IF S = {} THEN <<>>
    ELSE LET m == CHOOSE x \in S : \A y \in S : x <= y
         IN  <<m>> \o SortedSeq(S \ {m})

\* The speakers list comprehension over sorted(speaker_times.items()).
speakers_list(times) ==
    LET ids == SortedSeq(DOMAIN times)
    IN  [i \in 1..Len(ids) |->
            [id |-> ids[i],
             name |-> speaker_name(ids[i]),
             total_duration |-> Round2(times[ids[i]])]]

diarization_result(segs, times) ==
    LET speakers == speakers_list(times)
    IN  [success |-> TRUE,
         method |-> "pyannote",
         speaker_count |-> Len(speakers),
         segments |-> segs,
         speakers |-> speakers]

\* f"Audio file not found: {audio_path}" with audio_path = Path(args.audio_path)
whisper_not_found(audio_path) ==
    [success |-> FALSE,
     error |-> <<"Audio file not found: ">> \o PathStr(audio_path)]

\* f"Audio file not found: {args.audio_path}"
diarize_not_found(audio_path) ==
    [success |-> FALSE, error |-> <<"Audio file not found: ">> \o audio_path]

whisper_not_installed ==
    [error |-> <<"Whisper not installed. Run: pip install openai-whisper">>,
     success |-> FALSE]

(***************************************************************************)
(* Initial states: one script, one command line, one environment.          *)
(***************************************************************************)
NoExc == [cls |-> None, msg |-> <<>>]

\* Command lines of whisper_transcribe.py: zero or one positional argument,
\* --model, --language, -h (not together with a rejected --model, where the
\* order of the two on the command line would decide).
WhisperArgv ==
    { av \in
        { [positional |-> pos, model |-> m, language |-> l, token |-> None,
           simple |-> FALSE, help |-> h] :
            pos \in { <<>> } \cup { <<a>> : a \in AudioPaths },
            m \in ModelArgs, l \in LanguageArgs, h \in BOOLEAN } :
        ~(av.help /\ av.model = "huge") }

\* Command lines of speaker_diarize.py: zero or one positional argument,
\* --token, --simple, -h.
DiarizeArgv ==
    { [positional |-> pos, model |-> None, language |-> None, token |-> t,
       simple |-> s, help |-> h] :
        pos \in { <<>> } \cup { <<a>> : a \in AudioPaths },
        t \in TokenArgs, s \in BOOLEAN, h \in BOOLEAN }

NoEnviron == [HUGGINGFACE_TOKEN |-> None, HF_TOKEN |-> None]

Environs ==
    { [HUGGINGFACE_TOKEN |-> a, HF_TOKEN |-> b] :
        a \in PrimaryEnv, b \in SecondaryEnv }

Init ==
    /\ script \in {"whisper", "diarize"}
    /\ argv \in IF script = "whisper" THEN WhisperArgv ELSE DiarizeArgv
    /\ environ \in IF script = "whisper" THEN {NoEnviron} ELSE Environs
    /\ pc = IF script = "whisper" THEN "import_whisper" ELSE "parse_args"
    /\ args = Empty
    /\ file_exists \in BOOLEAN
    /\ imported = "not attempted"
    /\ stdout = <<>>
    /\ stderr = <<>>
    /\ exit_code = -1
    /\ calls = <<>>
    /\ exc = NoExc
    /\ token = None
    /\ engine_result = Empty
    /\ formatted_result = Empty
    /\ seg_index = 0
    /\ turns = <<>>
    /\ segments = <<>>
    /\ speaker_times = Empty
    /\ speaker_mapping = Empty
    /\ speaker_counter = 0
    /\ result = Empty

(***************************************************************************)
(* Building blocks of the actions.                                         *)
(***************************************************************************)
Call(op, arg) == [op |-> op, arg |-> arg]

\* print(json.dumps(doc)) or print(json.dumps(doc, indent=2))
Json(doc, pretty) == [kind |-> "json", pretty |-> pretty, doc |-> doc]

\* An exception propagating out of a try body whose handler is
\* "except Exception": caught when it is an Exception, else it leaves the
\* script and the interpreter prints a traceback and exits with status 1.
Raise(e) ==
    IF e.cls = "Exception"
    THEN /\ pc' = "except"
         /\ exc' = e
         /\ UNCHANGED <<stderr, exit_code>>
    ELSE /\ pc' = "exited"
         /\ exc' = e
         /\ stderr' = Append(stderr, "traceback")
         /\ exit_code' = 1

locals == <<token, engine_result, formatted_result, seg_index, turns,
            segments, speaker_times, speaker_mapping, speaker_counter>>

inputs == <<script, argv, environ, file_exists>>

(***************************************************************************)
(* whisper_transcribe.py                                                   *)
(***************************************************************************)
\* Lines 12-19: the import guard at module level.  The import succeeds,
\* raises ImportError (handled: JSON on stdout, exit 1), or raises anything
\* else while the library initialises (not handled: traceback, exit 1).
ImportWhisper ==
    /\ pc = "import_whisper"
    /\ calls' = Append(calls, Call("import whisper", None))
    /\ \E outcome \in {"ok", "ImportError", "other"} :
         /\ imported' = outcome
         /\ CASE outcome = "ok" ->
                   /\ pc' = "parse_args"
                   /\ UNCHANGED <<stdout, stderr, exit_code>>
              [] outcome = "ImportError" ->
                   /\ stdout' = Append(stdout, Json(whisper_not_installed, FALSE))
                   /\ exit_code' = 1
                   /\ pc' = "exited"
                   /\ UNCHANGED stderr
              [] outcome = "other" ->
                   /\ stderr' = Append(stderr, "traceback")
                   /\ exit_code' = 1
                   /\ pc' = "exited"
                   /\ UNCHANGED stdout
    /\ UNCHANGED <<inputs, args, exc, locals, result>>

\* What parse_args() does with a command line: "help" (-h: the help text on
\* stdout, exit 0), "error" (usage on stderr, exit 2) or "ok".
ParseOutcome(av) ==
    IF av.model \notin ModelChoices \cup {None} THEN "error"
    ELSE IF av.help THEN "help"
    ELSE IF Len(av.positional) # 1 THEN "error"
    ELSE "ok"

\* The namespace of an accepted command line, defaults filled in.
Namespace(av) ==
    [audio_path |-> av.positional[1],
     model |-> IF av.model = None THEN "small" ELSE av.model,
     language |-> av.language,
     token |-> av.token,
     simple |-> av.simple]

\* whisper lines 88-95, diarize lines 122-127.
ParseArgs ==
    /\ pc = "parse_args"
    /\ CASE ParseOutcome(argv) = "ok" ->
              /\ args' = Namespace(argv)
              /\ pc' = "check_file"
              /\ UNCHANGED <<stdout, stderr, exit_code>>
         [] ParseOutcome(argv) = "help" ->
              /\ stdout' = Append(stdout, [kind |-> "text"])
              /\ exit_code' = 0
              /\ pc' = "exited"
              /\ UNCHANGED <<args, stderr>>
         [] ParseOutcome(argv) = "error" ->
              /\ stderr' = Append(stderr, "usage")
              /\ exit_code' = 2
              /\ pc' = "exited"
              /\ UNCHANGED <<args, stdout>>
    /\ UNCHANGED <<inputs, imported, calls, exc, locals, result>>

\* The document printed when the existence check fails.
not_found_result ==
    IF script = "whisper" THEN whisper_not_found(args.audio_path)
    ELSE diarize_not_found(args.audio_path)

\* whisper lines 97-105, diarize lines 129-132.
CheckFile ==
    /\ pc = "check_file"
    /\ IF file_exists
       THEN /\ pc' = IF script = "whisper" THEN "load_model" ELSE "dispatch"
            /\ UNCHANGED <<stdout, exit_code, result>>
       ELSE /\ result' = not_found_result
            /\ stdout' = Append(stdout, Json(not_found_result, FALSE))
            /\ exit_code' = 1
            /\ pc' = "exited"
    /\ UNCHANGED <<inputs, args, imported, stderr, calls, exc, locals>>

\* Line 35: model = whisper.load_model(model_name)
LoadModel ==
    /\ pc = "load_model"
    /\ calls' = Append(calls, Call("load_model", args.model))
    /\ \/ /\ pc' = "transcribe"
          /\ UNCHANGED <<exc, stderr, exit_code>>
       \/ \E e \in EngineExceptions : Raise(e)
    /\ UNCHANGED <<inputs, args, imported, stdout, locals, result>>

\* Lines 40-48: result = model.transcribe(str(audio_path), **options)
Transcribe ==
    /\ pc = "transcribe"
    /\ calls' = Append(calls, Call("transcribe", language_option(args.language)))
    /\ \/ \E r \in EngineResults :
            /\ engine_result' = r
            /\ pc' = "format"
            /\ UNCHANGED <<exc, stderr, exit_code>>
       \/ /\ \E e \in EngineExceptions : Raise(e)
          /\ UNCHANGED engine_result
    /\ UNCHANGED <<inputs, args, imported, stdout, token, formatted_result,
                   seg_index, turns, segments, speaker_times, speaker_mapping,
                   speaker_counter, result>>

\* Lines 51-60: the head of the formatted result, then into the loop when
\* the engine result has a "segments" key.
FormatHead ==
    /\ pc = "format"
    /\ formatted_result' = formatted_head(engine_result)
    /\ seg_index' = 1
    /\ pc' = IF "segments" \in DOMAIN engine_result THEN "segments" ELSE "return"
    /\ UNCHANGED <<inputs, args, imported, stdout, stderr, exit_code, calls,
                   exc, token, engine_result, turns, segments, speaker_times,
                   speaker_mapping, speaker_counter, result>>

\* Lines 61-77: one iteration of the segment loop.  A word without one of
\* its keys raises KeyError after the segment and the words before it were
\* appended.
FormatSegment ==
    /\ pc = "segments"
    /\ seg_index <= Len(engine_result.segments)
    /\ LET segment == engine_result.segments[seg_index]
           ws == SegmentWords(segment)
           bad == FirstBadWord(ws, 1)
           n == IF bad = 0 THEN Len(ws) ELSE bad - 1
       IN  /\ formatted_result' =
                [formatted_result EXCEPT
                   !.segments = Append(@, segment_data(segment)),
                   !.words = AppendWords(@, ws, n)]
           /\ IF bad = 0
              THEN /\ seg_index' = seg_index + 1
                   /\ UNCHANGED <<pc, exc>>
              ELSE /\ pc' = "except"
                   /\ exc' = KeyErrorOf(ws, bad)
                   /\ UNCHANGED seg_index
    /\ UNCHANGED <<inputs, args, imported, stdout, stderr, exit_code, calls,
                   token, engine_result, turns, segments, speaker_times,
                   speaker_mapping, speaker_counter, result>>

\* The loop is exhausted.
SegmentsDone ==
    /\ pc = "segments"
    /\ seg_index > Len(engine_result.segments)
    /\ pc' = "return"
    /\ UNCHANGED <<inputs, args, imported, stdout, stderr, exit_code, calls,
                   exc, locals, result>>

\* Line 79: return formatted_result
ReturnFormatted ==
    /\ pc = "return"
    /\ result' = formatted_result
    /\ pc' = "emit"
    /\ UNCHANGED <<inputs, args, imported, stdout, stderr, exit_code, calls,
                   exc, locals>>

\* An except clause that marks the dict under construction as failed.
ExceptHandler_partial ==
    /\ pc = "except"
    /\ result' = except_result(exc) @@ formatted_result
    /\ pc' = "emit"
    /\ UNCHANGED <<inputs, args, imported, stdout, stderr, exit_code, calls,
                   exc, locals>>

\* whisper lines 81-85, diarize lines 114-118: the except clause.
ExceptHandler ==
    /\ pc = "except"
    /\ result' = except_result(exc)
    /\ pc' = "emit"
    /\ UNCHANGED <<inputs, args, imported, stdout, stderr, exit_code, calls,
                   exc, locals>>

\* whisper lines 111-115 (pretty-printed), diarize lines 139-140 (compact).
Emit ==
    /\ pc = "emit"
    /\ stdout' = Append(stdout, Json(result, script = "whisper"))
    /\ exit_code' = IF result.success THEN 0 ELSE 1
    /\ pc' = "exited"
    /\ UNCHANGED <<inputs, args, imported, stderr, calls, exc, locals, result>>

(***************************************************************************)
(* speaker_diarize.py                                                      *)
(***************************************************************************)
\* Lines 134-137: the branch on args.simple.
Dispatch ==
    /\ pc = "dispatch"
    /\ IF args.simple
       THEN /\ result' = simple_diarization
            /\ pc' = "emit"
       ELSE /\ pc' = "import_pyannote"
            /\ UNCHANGED result
    /\ UNCHANGED <<inputs, args, imported, stdout, stderr, exit_code, calls,
                   exc, locals>>

\* Lines 37-44: from pyannote.audio import Pipeline; import torch.  Only
\* ImportError is handled here; any other exception raised while the
\* libraries initialise leaves the script.
ImportPyannote ==
    /\ pc = "import_pyannote"
    /\ calls' = Append(calls, Call("import pyannote", None))
    /\ \E outcome \in {"ok", "ImportError", "other"} :
         /\ imported' = outcome
         /\ CASE outcome = "ok" ->
                   /\ pc' = "resolve_token"
                   /\ UNCHANGED <<stderr, exit_code, result>>
              [] outcome = "ImportError" ->
                   /\ result' = import_error_result
                   /\ pc' = "emit"
                   /\ UNCHANGED <<stderr, exit_code>>
              [] outcome = "other" ->
                   /\ stderr' = Append(stderr, "traceback")
                   /\ exit_code' = 1
                   /\ pc' = "exited"
                   /\ UNCHANGED result
    /\ UNCHANGED <<inputs, args, stdout, exc, locals>>

\* The os.environ.get calls the "or" chain of line 47 makes: none when
\* hf_token is truthy, the second only when the first is falsy too.
env_lookups(hf_token, env) ==
    IF Truthy(hf_token) THEN <<>>
    ELSE IF Truthy(env.HUGGINGFACE_TOKEN)
         THEN << Call("environ.get", "HUGGINGFACE_TOKEN") >>
         ELSE << Call("environ.get", "HUGGINGFACE_TOKEN"),
                 Call("environ.get", "HF_TOKEN") >>

\* The credential resolved without the "if not token" return.
ResolveToken_unchecked ==
    /\ pc = "resolve_token"
    /\ token' = resolve_token(args.token, environ)
    /\ calls' = calls \o env_lookups(args.token, environ)
    /\ pc' = "load_pipeline"
    /\ UNCHANGED <<inputs, args, imported, stdout, stderr, exit_code,
                   exc, engine_result, formatted_result, seg_index, turns,
                   segments, speaker_times, speaker_mapping, speaker_counter,
                   result>>

\* Lines 47-53: resolve the credential, return the error when it is falsy.
ResolveToken ==
    /\ pc = "resolve_token"
    /\ token' = resolve_token(args.token, environ)
    /\ calls' = calls \o env_lookups(args.token, environ)
    /\ IF ~Truthy(token')
       THEN /\ result' = token_required_result
            /\ pc' = "emit"
       ELSE /\ pc' = "load_pipeline"
            /\ UNCHANGED result
    /\ UNCHANGED <<inputs, args, imported, stdout, stderr, exit_code,
                   exc, engine_result, formatted_result, seg_index, turns,
                   segments, speaker_times, speaker_mapping, speaker_counter>>

\* Lines 57-60: Pipeline.from_pretrained(..., use_auth_token=token)
LoadPipeline ==
    /\ pc = "load_pipeline"
    /\ calls' = Append(calls, Call("from_pretrained", token))
    /\ \/ /\ pc' = "select_device"
          /\ UNCHANGED <<exc, stderr, exit_code>>
       \/ \E e \in EngineExceptions : Raise(e)
    /\ UNCHANGED <<inputs, args, imported, stdout, locals, result>>

\* Lines 63-64: torch.cuda.is_available() and, when it is, pipeline.to(...)
SelectDevice ==
    /\ pc = "select_device"
    /\ \/ /\ pc' = "run_pipeline"
          /\ UNCHANGED <<calls, exc, stderr, exit_code>>
       \/ /\ calls' = Append(calls, Call("pipeline.to", "cuda"))
          /\ \/ /\ pc' = "run_pipeline"
                /\ UNCHANGED <<exc, stderr, exit_code>>
             \/ \E e \in EngineExceptions : Raise(e)
    /\ UNCHANGED <<inputs, args, imported, stdout, locals, result>>

\* Lines 67-73: diarization = pipeline(audio_path), then the four locals.
RunPipeline ==
    /\ pc = "run_pipeline"
    /\ calls' = Append(calls, Call("pipeline", None))
    /\ \/ /\ pc' = "itertracks"
          /\ segments' = <<>>
          /\ speaker_times' = Empty
          /\ speaker_mapping' = Empty
          /\ speaker_counter' = 1
          /\ UNCHANGED <<exc, stderr, exit_code>>
       \/ /\ \E e \in EngineExceptions : Raise(e)
          /\ UNCHANGED <<segments, speaker_times, speaker_mapping, speaker_counter>>
    /\ UNCHANGED <<inputs, args, imported, stdout, token, engine_result,
                   formatted_result, seg_index, turns, result>>

\* Lines 75-94: itertracks yields one more (turn, label) and the loop body
\* runs on it.
NextTurn ==
    /\ pc = "itertracks"
    /\ Len(turns) < MaxTurns
    /\ \E iv \in Intervals, speaker \in Labels :
         LET turn == [start |-> iv[1], end |-> iv[2]]
             m == map_speaker(speaker_mapping, speaker_counter, speaker)
             speaker_id == m.mapping[speaker]
         IN  /\ turns' = Append(turns, [turn |-> turn, label |-> speaker])
             /\ speaker_mapping' = m.mapping
             /\ speaker_counter' = m.counter
             /\ speaker_times' = add_duration(speaker_times, speaker_id, turn)
             /\ segments' = Append(segments, segment_entry(turn, speaker_id))
    /\ UNCHANGED <<inputs, args, imported, stdout, stderr, exit_code, calls,
                   exc, pc, token, engine_result, formatted_result, seg_index,
                   result>>

\* The generator raises instead of yielding.
TurnRaises ==
    /\ pc = "itertracks"
    /\ \E e \in EngineExceptions : Raise(e)
    /\ UNCHANGED <<inputs, args, imported, stdout, calls, locals, result>>

\* Lines 96-112: the generator is exhausted; build and return the result.
BuildResult ==
    /\ pc = "itertracks"
    /\ result' = diarization_result(segments, speaker_times)
    /\ pc' = "emit"
    /\ UNCHANGED <<inputs, args, imported, stdout, stderr, exit_code, calls,
                   exc, locals>>

(***************************************************************************)
(* The specification.                                                      *)
(***************************************************************************)
Next ==
    \/ ImportWhisper
    \/ ParseArgs
    \/ CheckFile
    \/ LoadModel
    \/ Transcribe
    \/ FormatHead
    \/ FormatSegment
    \/ SegmentsDone
    \/ ReturnFormatted
    \/ ExceptHandler
    \/ Emit
    \/ Dispatch
    \/ ImportPyannote
    \/ ResolveToken
    \/ LoadPipeline
    \/ SelectDevice
    \/ RunPipeline
    \/ NextTurn
    \/ TurnRaises
    \/ BuildResult

Spec == Init /\ [][Next]_vars

(***************************************************************************)
(* Vocabulary of the properties.                                           *)
(***************************************************************************)
Exited == pc = "exited"

\* needle in haystack, for strings as token sequences.
Contains(haystack, needle) ==
    \E i \in 0..(Len(haystack) - Len(needle)) :
        SubSeq(haystack, i + 1, i + Len(needle)) = needle

\* The command line was accepted: main ran past parse_args().
Accepted == ParseOutcome(argv) = "ok"

\* stdout holds exactly one item, a JSON document.
OneJsonDocument == Len(stdout) = 1 /\ stdout[1].kind = "json"

\* Engine steps: the diarization library import, model or pipeline load,
\* device selection, inference.
EngineOps ==
    {"import pyannote", "load_model", "transcribe", "from_pretrained",
     "pipeline.to", "pipeline"}

NoCall(ops) == \A i \in 1..Len(calls) : calls[i].op \notin ops

CountCalls(op) == Cardinality({ i \in 1..Len(calls) : calls[i].op = op })

\* A traceback on stderr: the run ended through an unhandled exception.
Unhandled == \E i \in 1..Len(stderr) : stderr[i] = "traceback"

\* A successful diarization result is at hand (returned or printed).
DiarizationDone ==
    /\ script = "diarize"
    /\ pc \in {"emit", "exited"}
    /\ "success" \in DOMAIN result
    /\ result.success

EngineDiarizationDone == DiarizationDone /\ result.method = "pyannote"

\* A successful transcription result is at hand.
TranscriptionDone ==
    /\ script = "whisper"
    /\ pc \in {"emit", "exited"}
    /\ "success" \in DOMAIN result
    /\ result.success

(***************************************************************************)
(* C1.  Every run prints exactly one well-formed JSON document on stdout,  *)
(* nothing else, and exits 0 when its success field is true and 1          *)
(* otherwise.                                                              *)
(***************************************************************************)
C1_OneJsonDocumentAndExitCode ==
    Exited =>
        /\ OneJsonDocument
        /\ exit_code = IF stdout[1].doc.success THEN 0 ELSE 1

(***************************************************************************)
(* C2.  When the audio path does not exist, either script prints one       *)
(* document with success false whose error contains the path exactly as    *)
(* given on the command line, exits 1, and has attempted no engine step.   *)
(***************************************************************************)
C2_MissingFileReportedWithLiteralPath ==
    (Exited /\ Accepted /\ ~file_exists) =>
        /\ OneJsonDocument
        /\ stdout[1].doc.success = FALSE
        /\ Contains(stdout[1].doc.error, argv.positional[1])
        /\ exit_code = 1
        /\ NoCall(EngineOps)

(***************************************************************************)
(* C3.  An exception raised during the engine invocation is caught and     *)
(* becomes a result with success false and a non-empty error string; no    *)
(* run ends through an unhandled exception.                                *)
(***************************************************************************)
C3_EngineExceptionsBecomeErrors ==
    /\ ~Unhandled
    /\ (Exited /\ exc # NoExc) =>
          /\ OneJsonDocument
          /\ stdout[1].doc.success = FALSE
          /\ stdout[1].doc.error # <<>>

(***************************************************************************)
(* C4.  In speaker_diarize.py with an existing audio path the --simple     *)
(* flag alone selects the path: with it the result is exactly the          *)
(* single-speaker placeholder and no import, credential lookup or engine   *)
(* call happens; without it no result ever has method "fallback".          *)
(***************************************************************************)
FallbackDocument ==
    [success |-> TRUE, method |-> "fallback", speaker_count |-> 1,
     segments |-> <<>>,
     speakers |-> << [id |-> 1, name |-> "Speaker 1", total_duration |-> 0] >>]

IsFallback(doc) == "method" \in DOMAIN doc /\ doc.method = "fallback"

InstallError ==
    <<"pyannote.audio not installed. Run: pip install pyannote.audio torch">>

CredentialError ==
    <<"HuggingFace token required. Set HUGGINGFACE_TOKEN environment variable.">>

ErrorDocument(msg) == [success |-> FALSE, error |-> msg]

\* None of --token, HUGGINGFACE_TOKEN, HF_TOKEN holds a credential.
NoCredential ==
    /\ argv.token \in {None, ""}
    /\ environ.HUGGINGFACE_TOKEN \in {None, ""}
    /\ environ.HF_TOKEN \in {None, ""}

PipelineOps == {"from_pretrained", "pipeline.to", "pipeline"}

LabelsBefore(i) == { turns[j].label : j \in 1..(i - 1) }

AllLabels == { turns[j].label : j \in 1..Len(turns) }

\* x is y rounded to a multiple of unit.
IsRounded(x, y, unit) ==
    /\ x % unit = 0
    /\ 2 * (x - y) <= unit
    /\ 2 * (y - x) <= unit

C6_DenseIdsInFirstAppearanceOrder ==
    EngineDiarizationDone =>
        LET segs == result.segments IN
        /\ Len(segs) = Len(turns)
        /\ \A i \in 1..Len(segs) :
              /\ IsRounded(segs[i].start, turns[i].turn.start, 10)
              /\ IsRounded(segs[i].end, turns[i].turn.end, 10)
              /\ turns[i].label \notin LabelsBefore(i) =>
                    segs[i].speakerId = Cardinality(LabelsBefore(i)) + 1
              /\ segs[i].speaker = "Speaker " \o ToString(segs[i].speakerId)
        /\ \A i, j \in 1..Len(segs) :
              (segs[i].speakerId = segs[j].speakerId)
                 <=> (turns[i].label = turns[j].label)
        /\ { segs[i].speakerId : i \in 1..Len(segs) }
              = 1..Cardinality(AllLabels)

\* Turns labelled A, B, A were yielded and the result went out.
C6_Witness ==
    /\ EngineDiarizationDone
    /\ Exited
    /\ Len(turns) = 3
    /\ turns[1].label = turns[3].label
    /\ turns[1].label # turns[2].label
    /\ result.segments[3].speakerId = 1
    /\ result.segments[2].speaker = "Speaker 2"

(***************************************************************************)
(* C7.  In every successful diarization result each speaker's              *)
(* total_duration equals the sum of (end - start) over the emitted         *)
(* segments with that speakerId; speakers is sorted by id ascending and    *)
(* speaker_count is its length.                                            *)
(***************************************************************************)
\* Sum of f[i] over the indices in S.
RECURSIVE SumOver(_, _)
SumOver(S, f) ==
    IF S = {} THEN 0
    ELSE LET i == CHOOSE x \in S : TRUE
         IN  f[i] + SumOver(S \ {i}, f)

\* Indices of the emitted segments of speaker id.
SegmentsOf(doc, id) ==
    { i \in 1..Len(doc.segments) : doc.segments[i].speakerId = id }

\* Sum of end - start over the emitted segments of speaker id.
EmittedSum(doc, id) ==
    SumOver(SegmentsOf(doc, id),
            [i \in 1..Len(doc.segments) |->
                doc.segments[i].end - doc.segments[i].start])

\* Sum of turn.end - turn.start over the yielded turns of speaker id.
RawSum(doc, id) ==
    SumOver(SegmentsOf(doc, id),
            [i \in 1..Len(turns) |-> turns[i].turn.end - turns[i].turn.start])

SpeakersSortedAndCounted(doc) ==
    /\ \A i \in 1..(Len(doc.speakers) - 1) :
          doc.speakers[i].id < doc.speakers[i + 1].id
    /\ doc.speaker_count = Len(doc.speakers)

C7_TotalsEqualEmittedSegmentSums ==
    DiarizationDone =>
        /\ \A k \in 1..Len(result.speakers) :
              result.speakers[k].total_duration
                 = EmittedSum(result, result.speakers[k].id)
        /\ SpeakersSortedAndCounted(result)

\* C7 as amended: each total_duration is the sum of the yielded turn
\* lengths (turn.end - turn.start, before the segment bounds are rounded) of
\* that speaker, rounded to 2 decimal places; speakers is sorted by id
\* ascending and speaker_count is its length.
C7_TotalsAreRoundedRawSums ==
    DiarizationDone =>
        /\ \A k \in 1..Len(result.speakers) :
              IsRounded(result.speakers[k].total_duration,
                        RawSum(result, result.speakers[k].id), 100)
        /\ result.method = "pyannote" =>
              { result.speakers[k].id : k \in 1..Len(result.speakers) }
                 = { result.segments[i].speakerId : i \in 1..Len(result.segments) }
        /\ SpeakersSortedAndCounted(result)

\* A result went out in which one speaker has a 2.0 s and a 1.4 ms turn:
\* the total is 2.0 while the emitted segments add up to 2.002.
C7_Witness ==
    /\ EngineDiarizationDone
    /\ Exited
    /\ \E k \in 1..Len(result.speakers) :
          /\ Cardinality(SegmentsOf(result, result.speakers[k].id)) >= 2
          /\ result.speakers[k].total_duration
                # EmittedSum(result, result.speakers[k].id)
          /\ result.speakers[k].total_duration
                # RawSum(result, result.speakers[k].id)

(***************************************************************************)
(* C8.  The top-level words of a transcription result are the engine's     *)
(* words of all segments, in segment order and then word order, each with  *)
(* exactly the fields word, start, end copied unchanged; segments has one  *)
(* {start, end, text} entry per engine segment, in the engine's order.     *)
(***************************************************************************)
EngineSegmentList ==
    IF "segments" \in DOMAIN engine_result THEN engine_result.segments ELSE <<>>

\* All words of the engine segments, concatenated.
RECURSIVE EngineWords(_)
EngineWords(segs) ==
    IF segs = <<>> THEN <<>>
    ELSE (IF "words" \in DOMAIN Head(segs) THEN Head(segs).words ELSE <<>>)
         \o EngineWords(Tail(segs))

C8_WordsFlattenedInOrder ==
    TranscriptionDone =>
        LET es == EngineSegmentList
            ew == EngineWords(es)
        IN  /\ Len(result.words) = Len(ew)
            /\ \A k \in 1..Len(ew) :
                  /\ DOMAIN result.words[k] = {"word", "start", "end"}
                  /\ result.words[k].word = ew[k].word
                  /\ result.words[k].start = ew[k].start
                  /\ result.words[k].end = ew[k].end
            /\ Len(result.segments) = Len(es)
            /\ \A i \in 1..Len(es) :
                  /\ DOMAIN result.segments[i] = {"start", "end", "text"}
                  /\ result.segments[i].start = es[i].start
                  /\ result.segments[i].end = es[i].end
                  /\ result.segments[i].text = es[i].text

\* Two engine segments of two words each gave four words, and one of the
\* engine words carried a probability.
C8_Witness ==
    /\ TranscriptionDone
    /\ Exited
    /\ Len(EngineSegmentList) = 2
    /\ \A i \in 1..2 :
          /\ "words" \in DOMAIN EngineSegmentList[i]
          /\ Len(EngineSegmentList[i].words) = 2
          /\ "probability" \in DOMAIN EngineSegmentList[i].words[1]
    /\ Len(result.words) = 4

(***************************************************************************)
(* C9.  The credential handed to the pipeline load is the --token          *)
(* argument if supplied, otherwise HUGGINGFACE_TOKEN, otherwise HF_TOKEN;  *)
(* a lower-priority source is used only when every higher-priority one is  *)
(* absent, and the credential-required error is returned only when all     *)
(* three are absent.                                                       *)
(***************************************************************************)
\* First of the three sources whose value is not in absent, None if there
\* is none.
FirstPresent(absent) ==
    IF argv.token \notin absent THEN argv.token
    ELSE IF environ.HUGGINGFACE_TOKEN \notin absent THEN environ.HUGGINGFACE_TOKEN
    ELSE IF environ.HF_TOKEN \notin absent THEN environ.HF_TOKEN
    ELSE None

\* The credential-required error was returned.
CredentialErrorReturned ==
    /\ script = "diarize"
    /\ pc \in {"emit", "exited"}
    /\ result = ErrorDocument(CredentialError)

\* The resolution is over and did not end in the error.
CredentialResolved ==
    /\ script = "diarize"
    /\ imported = "ok"
    /\ pc \notin {"import_pyannote", "resolve_token"}
    /\ ~CredentialErrorReturned

PriorityOrder(absent) ==
    /\ \A i \in 1..Len(calls) :
          calls[i].op = "from_pretrained" => calls[i].arg = FirstPresent(absent)
    /\ CredentialResolved => token = FirstPresent(absent) /\ token # None
    /\ CredentialErrorReturned => FirstPresent(absent) = None

C9_SuppliedSourcesInPriorityOrder == PriorityOrder({None})

\* C9 as amended: a source counts as absent when it is unset or set to the
\* empty string.  The credential is the first non-empty one of --token,
\* HUGGINGFACE_TOKEN, HF_TOKEN, and the credential-required error is
\* returned only when none of the three is non-empty.
C9_NonEmptySourcesInPriorityOrder ==
    /\ PriorityOrder({None, ""})
    /\ \A i \in 1..Len(calls) :
          calls[i].op = "from_pretrained" => CountCalls("from_pretrained") = 1

\* The pipeline was loaded with HF_TOKEN because --token was given empty
\* and HUGGINGFACE_TOKEN is unset.
C9_Witness ==
    /\ script = "diarize"
    /\ argv.token = ""
    /\ environ.HUGGINGFACE_TOKEN = None
    /\ environ.HF_TOKEN = "tok_env2"
    /\ \E i \in 1..Len(calls) :
          calls[i] = [op |-> "from_pretrained", arg |-> "tok_env2"]

(***************************************************************************)
(* C10.  A failed result is all-or-nothing: a document with success false  *)
(* holds only success and error, also when the exception came midway       *)
(* through reshaping the engine's output; and no engine step is invoked a  *)
(* second time within a run.                                               *)
(***************************************************************************)
FailureOnly(doc) ==
    ("success" \in DOMAIN doc /\ ~doc.success) =>
        DOMAIN doc = {"success", "error"}

C10_FailureIsAllOrNothing ==
    /\ FailureOnly(result)
    /\ \A i \in 1..Len(stdout) :
          stdout[i].kind = "json" => FailureOnly(stdout[i].doc)
    /\ \A op \in EngineOps : CountCalls(op) <= 1

\* The transcription script printed a failure after one segment and one
\* word had been accumulated.
C10_Witness ==
    /\ script = "whisper"
    /\ Exited
    /\ OneJsonDocument
    /\ ~stdout[1].doc.success
    /\ formatted_result # Empty
    /\ Len(formatted_result.segments) >= 1
    /\ Len(formatted_result.words) >= 1
=============================================================================
